---- MODULE Spec2Model ----
(***************************************************************************)
(* Model of internal/storage/fs/object/store.go: the SnapshotStore that    *)
(* builds a snapshot from a blob bucket (getIndex, List, filter, open),    *)
(* publishes it under a sync.RWMutex (update), serves it to readers (View) *)
(* and is refreshed by a background Poller started by NewSnapshotStore.    *)
(***************************************************************************)
EXTENDS Integers, Sequences, FiniteSets, TLC

(* ------------------------------ bounds -------------------------------- *)

\* number of goroutines calling View
NumReaders == 2
\* number of poll ticks the Poller may start
MaxTicks == 2
\* number of writes an external writer may make to the bucket
MaxWrites == 1
\* update calls, by any caller, after which a fn starts no further one
MaxUpdates == 2

(* ------------------------- keys and the bucket ------------------------ *)

\* storagefs.IndexFileName (".flipt.yml"), a one-character name here
IndexFileName == <<"i">>

\* the values WithPrefix may configure
Prefixes == {<< >>, <<"p">>}

\* every key the bucket may hold, in the lexicographic order List yields
UniverseSeq == << <<"i">>, <<"p", "a">>, <<"p", "b">>, <<"p", "i">> >>

Universe == {UniverseSeq[j] : j \in DOMAIN UniverseSeq}

\* strings.HasPrefix
HasPrefix(s, p) == Len(p) <= Len(s) /\ SubSeq(s, 1, Len(p)) = p

\* strings.TrimPrefix: s without the leading p, s itself when p does not lead
TrimPrefix(s, p) == IF HasPrefix(s, p) THEN SubSeq(s, Len(p) + 1, Len(s)) ELSE s

\* the content of an index object: unparsable, or the key suffixes it accepts
BadIndex == [ok |-> FALSE, suf |-> {}]

IndexContents == {BadIndex, [ok |-> TRUE, suf |-> {"b"}], [ok |-> TRUE, suf |-> {"a", "b", "i"}]}

\* a resolved *storagefs.FliptIndex; kind "none" is the nil index
NoIdx == [kind |-> "none", suf |-> {}]

\* storagefs.DefaultFliptIndex()
DefaultFliptIndex == [kind |-> "default", suf |-> {"a"}]

\* storagefs.ParseFliptIndex on a parsable object
ParsedIndex(c) == [kind |-> "parsed", suf |-> c.suf]

\* FliptIndex.Match on a relative key
Match(idx, key) == Len(key) > 0 /\ key[Len(key)] \in idx.suf

(* ------------------------------ snapshots ----------------------------- *)

\* the nil snapshot reference
Nil == [id |-> 0, files |-> << >>]

Runners == {"ctor", "poll"}

\* every caller of update: the two above, and a fn that View runs
Callers == Runners \cup {"fn"}

Readers == 1 .. NumReaders

VARIABLES
    prefix,      \* s.prefix
    bucket,      \* keys of the objects the bucket holds
    idxContent,  \* content of the object at prefix + IndexFileName
    writes,      \* writes made by the external writer
    cancelled,   \* ctx is done
    healthy,     \* the backend has stopped failing, for good
    ctorPc,      \* position of NewSnapshotStore
    pollPc,      \* position of the Poll goroutine
    ticks,       \* poll ticks started
    u,           \* per caller of update: its position and locals
    nextId,      \* builds started
    mu,          \* s.mu
    snap,        \* s.snap
    rpc,         \* per reader: position in View
    seen,        \* per reader: the snapshot fn was given
    built        \* every snapshot SnapshotFromFiles has returned

vars == <<prefix, bucket, idxContent, writes, cancelled, healthy, ctorPc, pollPc, ticks,
          u, nextId, mu, snap, rpc, seen, built>>

\* the key getIndex opens
IndexKey == prefix \o IndexFileName

\* update's locals before it is called
IdleU == [pc |-> "idle", idx |-> NoIdx, idxRes |-> "none", idxRead |-> BadIndex,
          cursor |-> 0, listed |-> << >>, opens |-> << >>, files |-> << >>,
          item |-> << >>,
          snap |-> Nil, err |-> "none", changed |-> FALSE, pre |-> Nil, id |-> 0,
          eof |-> FALSE, seenB |-> {}, quiet |-> FALSE]

Init ==
    /\ prefix \in Prefixes
    /\ bucket \in SUBSET Universe
    /\ idxContent \in IF IndexKey \in bucket THEN IndexContents ELSE {BadIndex}
    /\ writes = 0
    /\ cancelled = FALSE
    /\ healthy = FALSE
    /\ ctorPc = "init"
    /\ pollPc = "notStarted"
    /\ ticks = 0
    /\ u = [r \in Callers |-> IdleU]
    /\ nextId = 0
    /\ mu = [readers |-> 0, writer |-> "none"]
    /\ snap = Nil
    /\ rpc = [i \in Readers |-> "idle"]
    /\ seen = [i \in Readers |-> Nil]
    /\ built = {}

(* --------------------------- the bucket backend ------------------------ *)

\* a backend operation may fail: the backend is not yet healthy for good, or
\* the context the operation is given is done
CanFail == ~healthy \/ cancelled

\* what bucket.NewReader(key) may return: the object, NotFound when there is
\* none, or any other backend error
NewReaderOutcomes(key) ==
    (IF key \in bucket THEN {"ok"} ELSE {"notfound"})
        \cup (IF CanFail THEN {"other"} ELSE {})

\* the bucket as it is now: the keys it holds and the index object's content
BState == [b |-> bucket, c |-> idxContent]

\* update's locals and records after an external write that made the bucket
\* nb: a running build has one more bucket state behind it, and no update
\* has run on an unchanged bucket any more
Observe(nb) ==
    [r \in DOMAIN u |->
        [u[r] EXCEPT !.quiet = FALSE,
                     !.seenB = IF u[r].pc \in {"getIndex", "next", "open", "snapshot"}
                               THEN @ \cup {nb} ELSE @]]

\* iterator.Next: the position in UniverseSeq of the first object after
\* cursor that is in the bucket under pfx; 0 at the end of the listing
NextPos(cursor, pfx) ==
    LET later == {j \in DOMAIN UniverseSeq :
                     /\ j > cursor
                     /\ UniverseSeq[j] \in bucket
                     /\ HasPrefix(UniverseSeq[j], pfx)}
    IN IF later = {} THEN 0 ELSE CHOOSE j \in later : \A k \in later : j <= k

\* an external writer creates or overwrites an object
PutObject(k, c) ==
    /\ writes < MaxWrites
    /\ IF k = IndexKey THEN k \notin bucket \/ c # idxContent
                       ELSE k \notin bucket /\ c = BadIndex
    /\ bucket' = bucket \cup {k}
    /\ idxContent' = IF k = IndexKey THEN c ELSE idxContent
    /\ writes' = writes + 1
    /\ u' = Observe([b |-> bucket \cup {k}, c |-> IF k = IndexKey THEN c ELSE idxContent])
    /\ UNCHANGED <<healthy, prefix, cancelled, ctorPc, pollPc, ticks, nextId, mu, snap,
                   rpc, seen, built>>

\* an external writer deletes an object
DeleteObject(k) ==
    /\ writes < MaxWrites
    /\ k \in bucket
    /\ bucket' = bucket \ {k}
    /\ idxContent' = IF k = IndexKey THEN BadIndex ELSE idxContent
    /\ writes' = writes + 1
    /\ u' = Observe([b |-> bucket \ {k}, c |-> IF k = IndexKey THEN BadIndex ELSE idxContent])
    /\ UNCHANGED <<healthy, prefix, cancelled, ctorPc, pollPc, ticks, nextId, mu, snap,
                   rpc, seen, built>>

\* the backend's failures end: from now on its operations succeed
Heal ==
    /\ ~healthy
    /\ healthy' = TRUE
    /\ UNCHANGED <<prefix, bucket, idxContent, writes, cancelled, ctorPc, pollPc, ticks,
                   u, nextId, mu, snap, rpc, seen, built>>

\* the owner of ctx cancels it
Cancel ==
    /\ ~cancelled
    /\ cancelled' = TRUE
    /\ UNCHANGED <<healthy, prefix, bucket, idxContent, writes, ctorPc, pollPc, ticks, u,
                   nextId, mu, snap, rpc, seen, built>>

(* ------------------------------- getIndex ------------------------------ *)

\* getIndex with a parse failure replaced by the default index
getIndexDefaultOnParseError(res, content) ==
    IF res = "ok" /\ content.ok
    THEN [idx |-> ParsedIndex(content), err |-> "none"]
    ELSE IF res \notin {"ok", "notfound"}
    THEN [idx |-> NoIdx, err |-> "ErrIndexOpen"]
    ELSE [idx |-> DefaultFliptIndex, err |-> "none"]

\* getIndex with every error of NewReader treated as NotFound
getIndexDefaultOnAnyError(res, content) ==
    IF res = "ok"
    THEN IF content.ok
         THEN [idx |-> ParsedIndex(content), err |-> "none"]
         ELSE [idx |-> NoIdx, err |-> "ErrParse"]
    ELSE [idx |-> DefaultFliptIndex, err |-> "none"]

\* getIndex, from what NewReader(prefix + IndexFileName) returned and the
\* content of the object it read
getIndex(res, content) ==
    IF res = "ok"
    THEN IF content.ok
         THEN [idx |-> ParsedIndex(content), err |-> "none"]
         ELSE [idx |-> NoIdx, err |-> "ErrParse"]
    ELSE IF res # "notfound"
    THEN [idx |-> NoIdx, err |-> "ErrIndexOpen"]
    ELSE [idx |-> DefaultFliptIndex, err |-> "none"]

(* -------------------------------- update ------------------------------- *)

\* update's error return with the nil result of build assigned to s.snap
updateFailPublishes(r, rec, e) ==
    /\ u' = [u EXCEPT ![r] = [rec EXCEPT !.pc = "ret", !.err = e,
                                         !.changed = FALSE, !.snap = Nil]]
    /\ snap' = Nil

\* build returned an error: update returns (false, err)
updateFail(r, rec, e) ==
    /\ u' = [u EXCEPT ![r] = [rec EXCEPT !.pc = "ret", !.err = e,
                                         !.changed = FALSE, !.snap = Nil]]
    /\ snap' = snap

\* update is called: fresh locals, build starts
StartUpdate(r) ==
    /\ u' = [u EXCEPT ![r] = [IdleU EXCEPT !.pc = "getIndex", !.pre = snap,
                                           !.id = nextId + 1,
                                           !.seenB = {BState},
                                           !.quiet = ~CanFail]]
    /\ nextId' = nextId + 1

\* a build that reads the index object only while nothing is published and
\* goes on with the default index in every later update
BuildGetIndexOnce(r) ==
    /\ u[r].pc = "getIndex"
    /\ \E res \in NewReaderOutcomes(IndexKey) :
          LET g == IF snap = Nil THEN getIndex(res, idxContent)
                                 ELSE [idx |-> DefaultFliptIndex, err |-> "none"]
              rec == [u[r] EXCEPT !.idxRes = res,
                                  !.idxRead = IF res = "ok" THEN idxContent ELSE BadIndex,
                                  !.idx = g.idx]
          IN IF g.err # "none"
             THEN updateFail(r, rec, g.err)
             ELSE /\ u' = [u EXCEPT ![r] = [rec EXCEPT !.pc = "next"]]
                  /\ snap' = snap
    /\ UNCHANGED <<healthy, prefix, bucket, idxContent, writes, cancelled, ctorPc, pollPc,
                   ticks, nextId, mu, rpc, seen, built>>

\* build: idx, err := s.getIndex(ctx)
BuildGetIndex(r) ==
    /\ u[r].pc = "getIndex"
    /\ \E res \in NewReaderOutcomes(IndexKey) :
          LET g == getIndex(res, idxContent)
              rec == [u[r] EXCEPT !.idxRes = res,
                                  !.idxRead = IF res = "ok" THEN idxContent ELSE BadIndex,
                                  !.idx = g.idx]
          IN IF g.err # "none"
             THEN updateFail(r, rec, g.err)
             ELSE /\ u' = [u EXCEPT ![r] = [rec EXCEPT !.pc = "next"]]
                  /\ snap' = snap
    /\ UNCHANGED <<healthy, prefix, bucket, idxContent, writes, cancelled, ctorPc, pollPc,
                   ticks, nextId, mu, rpc, seen, built>>

\* key := strings.TrimPrefix(item.Key, s.prefix)
RelKey(itemKey, pfx) == TrimPrefix(itemKey, pfx)

\* the filter with its test inverted: the accepted entries are skipped
SkipAccepted(idx, key) == Match(idx, key)

\* if !idx.Match(key) { continue }
Skip(idx, key) == ~Match(idx, key)

\* the key of the reader, without the prefix
ReaderKeyNoPrefix(pfx, key) == key

\* the key NewReader is called on: s.prefix + key
ReaderKey(pfx, key) == pfx \o key

\* a listing error taken for the end of the listing: the loop just ends
listFailEndsLoop(r) ==
    /\ CanFail
    /\ u' = [u EXCEPT ![r].pc = "snapshot"]
    /\ snap' = snap

\* iterator.Next returned an error that is not io.EOF: build returns it
listFail(r) ==
    /\ CanFail
    /\ updateFail(r, u[r], "ErrList")

\* build: one iterator.Next and the filter on the item it yields
BuildNext(r) ==
    /\ u[r].pc = "next"
    /\ \/ /\ LET j == NextPos(u[r].cursor, prefix)
             IN IF j = 0
                THEN u' = [u EXCEPT ![r].pc = "snapshot", ![r].eof = TRUE]
                ELSE LET rel == RelKey(UniverseSeq[j], prefix)
                         rec == [u[r] EXCEPT !.cursor = j,
                                             !.listed = Append(@, UniverseSeq[j])]
                     IN IF Skip(u[r].idx, rel)
                        THEN u' = [u EXCEPT ![r] = rec]
                        ELSE u' = [u EXCEPT ![r] = [rec EXCEPT !.pc = "open", !.item = rel]]
          /\ snap' = snap
       \/ listFail(r)
    /\ UNCHANGED <<healthy, prefix, bucket, idxContent, writes, cancelled, ctorPc, pollPc,
                   ticks, nextId, mu, rpc, seen, built>>

\* build: NewReader on the accepted item and the append of its File
BuildOpen(r) ==
    /\ u[r].pc = "open"
    /\ LET full == ReaderKey(prefix, u[r].item)
           rec == [u[r] EXCEPT !.opens = Append(@, full)]
       IN \E res \in NewReaderOutcomes(full) :
             IF res = "ok"
             THEN /\ u' = [u EXCEPT ![r] = [rec EXCEPT !.pc = "next",
                                                       !.item = << >>,
                                                       !.files = Append(@, [key |-> u[r].item, rd |-> full])]]
                  /\ snap' = snap
             ELSE updateFail(r, rec, IF res = "notfound" THEN "ErrNotFound" ELSE "ErrOpen")
    /\ UNCHANGED <<healthy, prefix, bucket, idxContent, writes, cancelled, ctorPc, pollPc,
                   ticks, nextId, mu, rpc, seen, built>>

\* what the caller of update keeps of a call that returned: its results
Returned(rec) == [IdleU EXCEPT !.pc = "idle", !.err = rec.err, !.changed = rec.changed,
                               !.pre = rec.pre, !.id = rec.id, !.quiet = rec.quiet]

\* the snapshot SnapshotFromFiles makes of files, for build number id
SnapshotOf(id, files) == [id |-> id, files |-> [i \in DOMAIN files |-> files[i].key]]

\* build: storagefs.SnapshotFromFiles(s.logger, files...)
BuildSnapshot(r) ==
    /\ u[r].pc = "snapshot"
    /\ \/ /\ u' = [u EXCEPT ![r].pc = "lock",
                            ![r].snap = SnapshotOf(u[r].id, u[r].files)]
          /\ built' = built \cup {SnapshotOf(u[r].id, u[r].files)}
          /\ snap' = snap
       \/ /\ updateFail(r, u[r], "ErrSnapshot")
          /\ built' = built
    /\ UNCHANGED <<healthy, prefix, bucket, idxContent, writes, cancelled, ctorPc, pollPc,
                   ticks, nextId, mu, rpc, seen>>

\* update going on to the assignment without s.mu.Lock()
UpdateSkipLock(r) ==
    /\ u[r].pc = "lock"
    /\ u' = [u EXCEPT ![r].pc = "assign"]
    /\ UNCHANGED <<healthy, prefix, bucket, idxContent, writes, cancelled, ctorPc, pollPc,
                   ticks, nextId, mu, snap, rpc, seen, built>>

\* update: s.mu.Lock() is called; the writer is announced to the readers
UpdateLock(r) ==
    /\ u[r].pc = "lock"
    /\ mu.writer = "none"
    /\ mu' = [mu EXCEPT !.writer = "pending"]
    /\ u' = [u EXCEPT ![r].pc = "lockwait"]
    /\ UNCHANGED <<healthy, prefix, bucket, idxContent, writes, cancelled, ctorPc, pollPc,
                   ticks, nextId, snap, rpc, seen, built>>

\* update: s.mu.Lock() returns once the active readers have left
UpdateLockAcquired(r) ==
    /\ u[r].pc = "lockwait"
    /\ mu.readers = 0
    /\ mu' = [mu EXCEPT !.writer = "held"]
    /\ u' = [u EXCEPT ![r].pc = "assign"]
    /\ UNCHANGED <<healthy, prefix, bucket, idxContent, writes, cancelled, ctorPc, pollPc,
                   ticks, nextId, snap, rpc, seen, built>>

\* an update that takes the lock and leaves s.snap as it was
UpdateAssignSkipped(r) ==
    /\ u[r].pc = "assign"
    /\ snap' = snap
    /\ u' = [u EXCEPT ![r].pc = "unlock"]
    /\ UNCHANGED <<healthy, prefix, bucket, idxContent, writes, cancelled, ctorPc, pollPc,
                   ticks, nextId, mu, rpc, seen, built>>

\* an update that keeps the published snapshot when the new one has the
\* same files
UpdateAssignIfDifferent(r) ==
    /\ u[r].pc = "assign"
    /\ snap' = IF u[r].snap.files = snap.files THEN snap ELSE u[r].snap
    /\ u' = [u EXCEPT ![r].pc = "unlock"]
    /\ UNCHANGED <<healthy, prefix, bucket, idxContent, writes, cancelled, ctorPc, pollPc,
                   ticks, nextId, mu, rpc, seen, built>>

\* update: s.snap = snap
UpdateAssign(r) ==
    /\ u[r].pc = "assign"
    /\ snap' = u[r].snap
    /\ u' = [u EXCEPT ![r].pc = "unlock"]
    /\ UNCHANGED <<healthy, prefix, bucket, idxContent, writes, cancelled, ctorPc, pollPc,
                   ticks, nextId, mu, rpc, seen, built>>

\* an update that returns with the write lock still held
UpdateUnlockKeepsLock(r) ==
    /\ u[r].pc = "unlock"
    /\ mu' = mu
    /\ u' = [u EXCEPT ![r].pc = "ret", ![r].changed = TRUE]
    /\ UNCHANGED <<healthy, prefix, bucket, idxContent, writes, cancelled, ctorPc, pollPc,
                   ticks, nextId, snap, rpc, seen, built>>

\* update: s.mu.Unlock(); return true, nil
UpdateUnlock(r) ==
    /\ u[r].pc = "unlock"
    /\ mu' = [mu EXCEPT !.writer = "none"]
    /\ u' = [u EXCEPT ![r].pc = "ret", ![r].changed = TRUE]
    /\ UNCHANGED <<healthy, prefix, bucket, idxContent, writes, cancelled, ctorPc, pollPc,
                   ticks, nextId, snap, rpc, seen, built>>

(* --------------------------- NewSnapshotStore -------------------------- *)

\* the test of the initial update's error, with the error dropped
InitialUpdateErrorIgnored(err) == FALSE

\* if _, err := s.update(ctx); err != nil
InitialUpdateFailed(err) == err # "none"

\* NewSnapshotStore with the Poll goroutine started before the initial update
NewSnapshotStoreCallPollFirst ==
    /\ ctorPc = "init"
    /\ ctorPc' = "updating"
    /\ pollPc' = "sleep"
    /\ StartUpdate("ctor")
    /\ UNCHANGED <<healthy, prefix, bucket, idxContent, writes, cancelled, ticks, mu, snap,
                   rpc, seen, built>>

\* NewSnapshotStore up to its call of s.update(ctx)
NewSnapshotStoreCall ==
    /\ ctorPc = "init"
    /\ ctorPc' = "updating"
    /\ StartUpdate("ctor")
    /\ UNCHANGED <<healthy, prefix, bucket, idxContent, writes, cancelled, pollPc, ticks, mu,
                   snap, rpc, seen, built>>

\* NewSnapshotStore starting the Poll goroutine also when the initial update failed
NewSnapshotStoreReturnAlwaysPolls ==
    /\ ctorPc = "updating"
    /\ u["ctor"].pc = "ret"
    /\ ctorPc' = IF InitialUpdateFailed(u["ctor"].err) THEN "failed" ELSE "returned"
    /\ pollPc' = "sleep"
    /\ u' = [u EXCEPT !["ctor"] = Returned(@)]
    /\ UNCHANGED <<healthy, prefix, bucket, idxContent, writes, cancelled, ticks, nextId,
                   mu, snap, rpc, seen, built>>

\* NewSnapshotStore after the initial update: return nil, err, or NewPoller,
\* go s.Poll() and return s, nil
NewSnapshotStoreReturn ==
    /\ ctorPc = "updating"
    /\ u["ctor"].pc = "ret"
    /\ IF InitialUpdateFailed(u["ctor"].err)
       THEN ctorPc' = "failed" /\ pollPc' = pollPc
       ELSE ctorPc' = "returned" /\ pollPc' = "sleep"
    /\ u' = [u EXCEPT !["ctor"] = Returned(@)]
    /\ UNCHANGED <<healthy, prefix, bucket, idxContent, writes, cancelled, ticks, nextId,
                   mu, snap, rpc, seen, built>>

(* -------------------------------- Poller ------------------------------- *)

\* the context handed to NewPoller replaced by one that is never done
PollerCtxNeverDone == FALSE

\* the context NewSnapshotStore hands to NewPoller, ctx, is done
PollerCtxDone == cancelled

\* Poll: the interval has passed and update is invoked
PollTick ==
    /\ pollPc = "sleep"
    /\ ~PollerCtxDone
    /\ ticks < MaxTicks
    /\ pollPc' = "updating"
    /\ ticks' = ticks + 1
    /\ StartUpdate("poll")
    /\ UNCHANGED <<healthy, prefix, bucket, idxContent, writes, cancelled, ctorPc, mu, snap,
                   rpc, seen, built>>

\* Poll: update returned; its outcome is logged and the loop sleeps again
PollUpdateReturned ==
    /\ pollPc = "updating"
    /\ u["poll"].pc = "ret"
    /\ pollPc' = "sleep"
    /\ u' = [u EXCEPT !["poll"] = Returned(@)]
    /\ UNCHANGED <<healthy, prefix, bucket, idxContent, writes, cancelled, ctorPc, ticks,
                   nextId, mu, snap, rpc, seen, built>>

\* Poll: the context is done and the loop ends
PollExit ==
    /\ pollPc = "sleep"
    /\ PollerCtxDone
    /\ pollPc' = "done"
    /\ UNCHANGED <<healthy, prefix, bucket, idxContent, writes, cancelled, ctorPc, ticks, u,
                   nextId, mu, snap, rpc, seen, built>>

(* --------------------------------- View -------------------------------- *)

\* a goroutine holding the store calls View
ViewCall(i) ==
    /\ ctorPc = "returned"
    /\ rpc[i] = "idle"
    /\ rpc' = [rpc EXCEPT ![i] = "rlock"]
    /\ UNCHANGED <<healthy, prefix, bucket, idxContent, writes, cancelled, ctorPc, pollPc,
                   ticks, u, nextId, mu, snap, seen, built>>

\* a read lock that is granted while a writer waits
ViewRLockPassesWaitingWriter(i) ==
    /\ rpc[i] = "rlock"
    /\ mu.writer # "held"
    /\ mu' = [mu EXCEPT !.readers = @ + 1]
    /\ rpc' = [rpc EXCEPT ![i] = "fn"]
    /\ seen' = [seen EXCEPT ![i] = snap]
    /\ UNCHANGED <<healthy, prefix, bucket, idxContent, writes, cancelled, ctorPc, pollPc,
                   ticks, u, nextId, snap, built>>

\* a View that calls fn without holding the read lock
ViewRLockNotHeld(i) ==
    /\ rpc[i] = "rlock"
    /\ mu.writer = "none"
    /\ mu' = mu
    /\ rpc' = [rpc EXCEPT ![i] = "fn"]
    /\ seen' = [seen EXCEPT ![i] = snap]
    /\ UNCHANGED <<healthy, prefix, bucket, idxContent, writes, cancelled, ctorPc, pollPc,
                   ticks, u, nextId, snap, built>>

\* View: s.mu.RLock() returns, no writer holding or waiting, and fn(s.snap)
\* is called
ViewRLock(i) ==
    /\ rpc[i] = "rlock"
    /\ mu.writer = "none"
    /\ mu' = [mu EXCEPT !.readers = @ + 1]
    /\ rpc' = [rpc EXCEPT ![i] = "fn"]
    /\ seen' = [seen EXCEPT ![i] = snap]
    /\ UNCHANGED <<healthy, prefix, bucket, idxContent, writes, cancelled, ctorPc, pollPc,
                   ticks, u, nextId, snap, built>>

\* View: fn returns and the deferred s.mu.RUnlock() runs
ViewReturn(i) ==
    /\ rpc[i] = "fn"
    /\ mu' = [mu EXCEPT !.readers = @ - 1]
    /\ rpc' = [rpc EXCEPT ![i] = "idle"]
    /\ seen' = [seen EXCEPT ![i] = Nil]
    /\ UNCHANGED <<healthy, prefix, bucket, idxContent, writes, cancelled, ctorPc, pollPc,
                   ticks, u, nextId, snap, built>>

\* a fn, running under View's read lock, calls s.update on the same store
FnCallsUpdate(i) ==
    /\ rpc[i] = "fn"
    /\ u["fn"].pc = "idle"
    /\ nextId < MaxUpdates
    /\ rpc' = [rpc EXCEPT ![i] = "fnUpdate"]
    /\ StartUpdate("fn")
    /\ UNCHANGED <<healthy, prefix, bucket, idxContent, writes, cancelled, ctorPc, pollPc,
                   ticks, mu, snap, seen, built>>

\* the update a fn called returns to it
FnUpdateReturned(i) ==
    /\ rpc[i] = "fnUpdate"
    /\ u["fn"].pc = "ret"
    /\ rpc' = [rpc EXCEPT ![i] = "fn"]
    /\ u' = [u EXCEPT !["fn"] = Returned(@)]
    /\ UNCHANGED <<healthy, prefix, bucket, idxContent, writes, cancelled, ctorPc, pollPc,
                   ticks, nextId, mu, snap, seen, built>>

(* ---------------------------- specification ---------------------------- *)

Next ==
    \/ \E k \in Universe, c \in IndexContents : PutObject(k, c)
    \/ \E k \in Universe : DeleteObject(k)
    \/ Cancel
    \/ NewSnapshotStoreCall
    \/ NewSnapshotStoreReturn
    \/ PollTick
    \/ PollUpdateReturned
    \/ PollExit
    \/ \E r \in Runners : BuildGetIndex(r)
    \/ \E r \in Runners : BuildNext(r)
    \/ \E r \in Runners : BuildOpen(r)
    \/ \E r \in Runners : BuildSnapshot(r)
    \/ \E r \in Runners : UpdateLock(r)
    \/ \E r \in Runners : UpdateLockAcquired(r)
    \/ \E r \in Runners : UpdateAssign(r)
    \/ \E r \in Runners : UpdateUnlock(r)
    \/ \E i \in Readers : ViewCall(i)
    \/ \E i \in Readers : ViewRLock(i)
    \/ \E i \in Readers : ViewReturn(i)

Spec == Init /\ [][Next]_vars

\* the same system with a backend whose failures may end for good
NextHealing == Next \/ Heal

SpecHealing == Init /\ [][NextHealing]_vars

\* the system with callers whose fn calls update on the store it views
NextReentrant ==
    \/ \E k \in Universe, c \in IndexContents : PutObject(k, c)
    \/ \E k \in Universe : DeleteObject(k)
    \/ Cancel
    \/ NewSnapshotStoreCall
    \/ NewSnapshotStoreReturn
    \/ PollTick
    \/ PollUpdateReturned
    \/ PollExit
    \/ \E r \in Callers : BuildGetIndex(r)
    \/ \E r \in Callers : BuildNext(r)
    \/ \E r \in Callers : BuildOpen(r)
    \/ \E r \in Callers : BuildSnapshot(r)
    \/ \E r \in Callers : UpdateLock(r)
    \/ \E r \in Callers : UpdateLockAcquired(r)
    \/ \E r \in Callers : UpdateAssign(r)
    \/ \E r \in Callers : UpdateUnlock(r)
    \/ \E i \in Readers : ViewCall(i)
    \/ \E i \in Readers : ViewRLock(i)
    \/ \E i \in Readers : ViewReturn(i)
    \/ \E i \in Readers : FnCallsUpdate(i)
    \/ \E i \in Readers : FnUpdateReturned(i)

\* what the scheduler and the backend guarantee: a goroutine that can take
\* its next step takes it, every backend call returns, every fn returns, and
\* the ticker fires; nothing is assumed of the callers of View, the external
\* writer or the owner of ctx
Fairness ==
    /\ WF_vars(NewSnapshotStoreCall)
    /\ WF_vars(NewSnapshotStoreReturn)
    /\ WF_vars(PollTick)
    /\ WF_vars(PollUpdateReturned)
    /\ WF_vars(PollExit)
    /\ \A r \in Runners :
          /\ WF_vars(BuildGetIndex(r))
          /\ WF_vars(BuildNext(r))
          /\ WF_vars(BuildOpen(r))
          /\ WF_vars(BuildSnapshot(r))
          /\ WF_vars(UpdateLock(r))
          /\ WF_vars(UpdateLockAcquired(r))
          /\ WF_vars(UpdateAssign(r))
          /\ WF_vars(UpdateUnlock(r))
    /\ \A i \in Readers :
          /\ WF_vars(ViewRLock(i))
          /\ WF_vars(ViewReturn(i))

\* the store constructed with prefix "p" on a bucket of three objects
InitLive ==
    /\ Init
    /\ prefix = <<"p">>
    /\ bucket = {<<"p", "a">>, <<"p", "b">>, <<"p", "i">>}
    /\ idxContent = [ok |-> TRUE, suf |-> {"b"}]

LiveSpec == InitLive /\ [][Next]_vars /\ Fairness

SpecReentrant == InitLive /\ [][NextReentrant]_vars

(* ------------------------------- properties --------------------------- *)

\* an update of runner r is in progress: called, not yet returned
InUpdate(r) == u[r].pc \notin {"idle", "ret"}

\* the readers whose fn is running
InFn == {i \in Readers : rpc[i] = "fn"}

\* C1: once NewSnapshotStore has returned a store, s.snap is never nil and
\* is the whole result of exactly one successful build, and so is the
\* snapshot every running fn was given, whatever the poll ticks did.
C1_PublishedIsOneCompleteBuild ==
    ctorPc = "returned" =>
        /\ snap # Nil
        /\ Cardinality({b \in built : b = snap}) = 1
        /\ Cardinality({b \in built : b.id = snap.id}) = 1
        /\ \A i \in InFn :
              /\ seen[i] # Nil
              /\ Cardinality({b \in built : b.id = seen[i].id /\ b = seen[i]}) = 1

\* C1 witness: a fn is running on the snapshot of the third build, one of
\* the two earlier builds (a poll tick) having failed.
C1_Witness ==
    /\ ctorPc = "returned"
    /\ nextId = 3
    /\ Cardinality(built) = 2
    /\ \E i \in InFn : seen[i].id = 3

\* C2: while a fn is running, s.snap is the snapshot that fn was given and
\* no update is between its Lock and its Unlock, also when a poll tick has
\* a new snapshot ready to swap in.
C2_NoSwapDuringFn ==
    \A i \in InFn :
        /\ snap = seen[i]
        /\ mu.writer # "held"
        /\ \A r \in Runners : u[r].pc \notin {"assign", "unlock"}

\* C2 witness: a fn is running while the poll tick's update, its new
\* snapshot built, waits in Lock for the reader to leave.
C2_Witness ==
    /\ u["poll"].pc = "lockwait"
    /\ u["poll"].snap \in built
    /\ u["poll"].snap # snap
    /\ InFn # {}

\* C3: a step in which update returns an error reports changed = false and
\* leaves s.snap as it was.
C3_FailedUpdateKeepsSnapshot ==
    [][\A r \in Runners :
          (u[r].err = "none" /\ u'[r].err # "none") =>
              /\ snap' = snap
              /\ u'[r].pc = "ret"
              /\ u'[r].changed = FALSE]_vars

\* C3 witness: a poll tick's update has failed opening a reader after it
\* had collected a file, with a snapshot published before it.
C3_Witness ==
    /\ u["poll"].pc = "ret"
    /\ u["poll"].err = "ErrOpen"
    /\ Len(u["poll"].files) > 0
    /\ snap # Nil
    /\ snap = u["poll"].pre

\* C4: the Poll goroutine is not started and no store is handed out before
\* the initial update has published a snapshot; if the initial update fails
\* NewSnapshotStore returns the error, nothing is published and no update is
\* ever invoked again; on success the poller runs and the snapshot is there.
C4_ConstructionPublishesFirst ==
    /\ ctorPc \in {"init", "updating"} =>
          pollPc = "notStarted" /\ \A i \in Readers : rpc[i] = "idle"
    /\ ctorPc = "failed" =>
          /\ u["ctor"].err # "none"
          /\ snap = Nil
          /\ pollPc = "notStarted"
          /\ nextId = 1
          /\ u["poll"] = IdleU
          /\ \A i \in Readers : rpc[i] = "idle"
    /\ ctorPc = "returned" =>
          /\ u["ctor"].err = "none"
          /\ u["ctor"].changed
          /\ u["ctor"].id = 1
          /\ snap # Nil
          /\ pollPc # "notStarted"
    /\ pollPc # "notStarted" => ctorPc = "returned"

\* C4 witness: NewSnapshotStore has returned the error of a failed initial
\* update (an unparsable index object).
C4_Witness ==
    /\ ctorPc = "failed"
    /\ u["ctor"].err = "ErrParse"

\* C5: a failed poll tick leaves the snapshot published before it in place
\* for every reader, the loop sleeps again and the next tick can start; a
\* tick that succeeded leaves the snapshot it built published.
C5_FailedTickIsInvisible ==
    /\ u["poll"].err # "none" =>
          /\ snap = u["poll"].pre
          /\ snap # Nil
          /\ \A i \in InFn : seen[i] = u["poll"].pre
    /\ (u["poll"].err # "none" /\ u["poll"].pc = "idle") =>
          \/ pollPc = "sleep"
          \/ pollPc = "done" /\ cancelled
    /\ (u["poll"].err # "none" /\ pollPc = "sleep" /\ ~cancelled /\ ticks < MaxTicks) =>
          ENABLED PollTick
    /\ u["poll"].changed =>
          /\ snap = u["poll"].snap \/ u["poll"].pc = "idle"
          /\ snap.id = u["poll"].id
          /\ snap \in built
          /\ \A i \in InFn : seen[i] = snap

\* C5 witness: the first tick failed, the second succeeded, and a fn is
\* running on the snapshot the second tick built.
C5_Witness ==
    /\ ticks = 2
    /\ nextId = 3
    /\ Cardinality(built) = 2
    /\ pollPc = "sleep"
    /\ u["poll"].changed
    /\ \E i \in InFn : seen[i].id = 3 /\ seen[i] = snap

\* C6: the initial update and a tick's update never overlap, the poll loop
\* starts after the initial update has returned, one update was started per
\* tick, and at most one update is at its lock, assignment or unlock.
C6_UpdatesAreSequential ==
    /\ ~(InUpdate("ctor") /\ InUpdate("poll"))
    /\ pollPc # "notStarted" => u["ctor"].pc = "idle" /\ u["ctor"].id = 1
    /\ (pollPc = "updating") = (u["poll"].pc # "idle")
    /\ nextId = ticks + (IF ctorPc = "init" THEN 0 ELSE 1)
    /\ Cardinality({r \in Runners : u[r].pc \in {"lockwait", "assign", "unlock"}}) <= 1
    /\ \A a, b \in built : a.id = b.id => a = b

\* C6 witness: the second tick's update is listing the bucket, the initial
\* update and the first tick's update having returned.
C6_Witness ==
    /\ pollPc = "updating"
    /\ u["poll"].pc = "next"
    /\ u["poll"].id = 3
    /\ ticks = 2
    /\ ~InUpdate("ctor")

\* the relative keys of files
FileKeys(files) == [i \in DOMAIN files |-> files[i].key]

\* the listed keys whose relative key the index accepts, in listing order
AcceptedOf(listed, idx, pfx) ==
    SelectSeq(listed, LAMBDA k : Match(idx, TrimPrefix(k, pfx)))

\* C7: between two iterations of the listing loop and once the listing is
\* complete, the files collected are exactly the listed entries whose
\* stripped key the resolved index accepts, once each and under the stripped
\* key; NewReader was called for those entries and for no other; the
\* snapshot builder is handed these files.
C7_FilesAreAcceptedEntries ==
    \A r \in Runners :
        u[r].pc \in {"next", "snapshot", "lock", "lockwait", "assign", "unlock"} =>
            LET acc == AcceptedOf(u[r].listed, u[r].idx, prefix)
                keys == FileKeys(u[r].files)
            IN /\ Len(keys) = Len(acc)
               /\ \A i \in DOMAIN acc : keys[i] = TrimPrefix(acc[i], prefix)
               /\ \A i, j \in DOMAIN keys : keys[i] = keys[j] => i = j
               /\ u[r].opens = acc
               /\ u[r].pc \in {"lock", "lockwait", "assign", "unlock"} =>
                     u[r].snap = SnapshotOf(u[r].id, u[r].files)

\* C7 witness: a listing of three entries is complete under a parsed index
\* that accepted one of them and rejected two.
C7_Witness ==
    \E r \in Runners :
        /\ u[r].pc = "snapshot"
        /\ u[r].idx.kind = "parsed"
        /\ Len(u[r].listed) = 3
        /\ Len(u[r].files) = 1
        /\ Len(u[r].opens) = 1

\* C8: every File of a build was read from a key that starts with the
\* prefix, is the key of a listed entry and is the prefix followed by the
\* File's relative key; no reader was requested on any other key.
C8_FilesAreUnderPrefix ==
    \A r \in Runners :
        /\ \A i \in DOMAIN u[r].files :
              LET f == u[r].files[i]
              IN /\ HasPrefix(f.rd, prefix)
                 /\ f.rd = prefix \o f.key
                 /\ \E j \in DOMAIN u[r].listed : u[r].listed[j] = f.rd
        /\ \A i \in DOMAIN u[r].opens :
              /\ HasPrefix(u[r].opens[i], prefix)
              /\ \E j \in DOMAIN u[r].listed : u[r].listed[j] = u[r].opens[i]

\* C8 witness: under prefix "p", with an object outside the prefix in the
\* bucket and an index that accepts every key, a listing is complete with
\* two files.
C8_Witness ==
    \E r \in Runners :
        /\ prefix = <<"p">>
        /\ <<"i">> \in bucket
        /\ u[r].pc = "snapshot"
        /\ u[r].idx.suf = {"a", "b", "i"}
        /\ Len(u[r].files) >= 2

\* C9: the resolved index is the default index exactly when NewReader on
\* prefix + IndexFileName returned NotFound, and then the build goes on and
\* filters with the default index's rule; after any other error of that
\* NewReader the build has failed with it, without an index or a listing.
C9_DefaultIndexOnlyOnNotFound ==
    \A r \in Runners :
        /\ (u[r].idx = DefaultFliptIndex) = (u[r].idxRes = "notfound")
        /\ u[r].idxRes = "notfound" =>
              /\ u[r].err \notin {"ErrIndexOpen", "ErrParse"}
              /\ \A i \in DOMAIN u[r].files :
                    Match(DefaultFliptIndex, u[r].files[i].key)
        /\ u[r].idxRes = "other" =>
              /\ u[r].pc = "ret"
              /\ u[r].err = "ErrIndexOpen"
              /\ u[r].idx = NoIdx
              /\ u[r].listed = << >>

\* C9 witness: the index object was not found and the listing is complete
\* with a file the default index accepted and an entry it rejected.
C9_Witness ==
    \E r \in Runners :
        /\ u[r].idxRes = "notfound"
        /\ u[r].pc = "snapshot"
        /\ Len(u[r].files) = 1
        /\ Len(u[r].listed) = 2

\* C10: a build that read an unparsable index object has failed with the
\* parse error: no listing step was made, no index (not the default one) was
\* resolved, and the snapshot published before the update is still
\* published; this holds of every tick that reads such an object.
C10_MalformedIndexFailsBuild ==
    \A r \in Runners :
        (u[r].idxRes = "ok" /\ ~u[r].idxRead.ok) =>
            /\ u[r].pc = "ret"
            /\ u[r].err = "ErrParse"
            /\ u[r].changed = FALSE
            /\ u[r].idx = NoIdx
            /\ u[r].cursor = 0
            /\ u[r].listed = << >>
            /\ u[r].opens = << >>
            /\ u[r].snap = Nil
            /\ snap = u[r].pre

\* C10 witness: the second poll tick has failed on the unparsable index
\* object an external writer put after construction; the first tick failed
\* too and the snapshot of the initial update is still published.
C10_Witness ==
    /\ u["poll"].idxRes = "ok"
    /\ ~u["poll"].idxRead.ok
    /\ u["poll"].err = "ErrParse"
    /\ ticks = 2
    /\ writes = 1
    /\ built = {snap}
    /\ snap.id = 1

\* C11: an update that failed listing or opening a reader has returned the
\* error with no snapshot made of its build and s.snap as before it; the
\* snapshot builder is reached only after the listing ended with io.EOF, so
\* every snapshot made, and so every one published, holds the files of a
\* complete listing.
C11_ListingErrorsAbortBuild ==
    /\ \A r \in Runners :
          /\ (u[r].pc = "ret" /\ u[r].err \in {"ErrList", "ErrOpen", "ErrNotFound"}) =>
                /\ u[r].snap = Nil
                /\ u[r].changed = FALSE
                /\ snap = u[r].pre
                /\ \A b \in built : b.id # u[r].id
          /\ u[r].pc \in {"snapshot", "lock", "lockwait", "assign", "unlock"} => u[r].eof
          /\ \A b \in built : b.id = u[r].id /\ u[r].pc # "idle" =>
                u[r].eof /\ b.files = FileKeys(u[r].files)
    /\ snap = Nil \/ snap \in built

\* C11 witness: a poll tick's update has failed in iterator.Next after one
\* file was collected, and the snapshot published before it is in place.
C11_Witness ==
    /\ u["poll"].pc = "ret"
    /\ u["poll"].err = "ErrList"
    /\ Len(u["poll"].files) = 1
    /\ ~u["poll"].eof
    /\ snap # Nil

\* the index a bucket in state st resolves to
IndexAt(st) ==
    IF IndexKey \in st.b
    THEN IF st.c.ok THEN ParsedIndex(st.c) ELSE NoIdx
    ELSE DefaultFliptIndex

\* the keys of the objects under the prefix that idx accepts, in state st
InScopeAt(st, idx) ==
    {k \in st.b : HasPrefix(k, prefix) /\ Match(idx, TrimPrefix(k, prefix))}

\* the keys the files of r's build were read from
FileRds(r) == {u[r].files[i].rd : i \in DOMAIN u[r].files}

\* st is an instant at which the bucket held exactly the index and the
\* in-scope objects r's build used
CoherentAt(r, st) ==
    /\ IndexAt(st) = u[r].idx
    /\ InScopeAt(st, u[r].idx) = FileRds(r)

\* C12 as stated: every snapshot just published has an instant of its build
\* at which the bucket held exactly its index and its files, whatever an
\* external writer did during the build.
C12_Original_CoherentInstant ==
    \A r \in Runners :
        u[r].pc = "unlock" => \E st \in u[r].seenB : CoherentAt(r, st)

\* C12 amended: every snapshot just published was built from the index the
\* bucket resolved to at one instant of its build and from objects each of
\* which the bucket held under the prefix at an instant of its build; when
\* no external write fell into the build, the bucket held exactly that
\* index and those in-scope objects throughout it.
C12_CoherentWhenBucketQuiet ==
    \A r \in Runners :
        u[r].pc = "unlock" =>
            /\ snap = u[r].snap
            /\ \E st \in u[r].seenB : IndexAt(st) = u[r].idx
            /\ \A k \in FileRds(r) :
                  \E st \in u[r].seenB : k \in st.b /\ HasPrefix(k, prefix)
            /\ Cardinality(u[r].seenB) = 1 =>
                  \A st \in u[r].seenB : CoherentAt(r, st)

\* C12 witness: a poll tick has published a snapshot of two files built
\* after the external write, none falling into the build.
C12_Witness ==
    /\ u["poll"].pc = "unlock"
    /\ writes = 1
    /\ Cardinality(u["poll"].seenB) = 1
    /\ Len(u["poll"].files) = 2

\* C13: once ctx is done the Poller starts no further tick and, when it
\* runs, ends after its current sleep or update; it ends for no other
\* reason; every View call, in flight or made later, gets the read lock,
\* runs fn on the published snapshot and returns.
C13_CancellationStopsPolling ==
    /\ [][cancelled => ticks' = ticks]_vars
    /\ [](pollPc = "done" => cancelled)
    /\ []((cancelled /\ pollPc \in {"sleep", "updating"}) => <>(pollPc = "done"))
    /\ \A i \in Readers : [](rpc[i] \in {"rlock", "fn"} => <>(rpc[i] = "idle"))
    /\ [](\A i \in InFn : seen[i] = snap /\ snap # Nil)

\* C13 witness: ctx is done, the Poller has ended after a tick, and a View
\* call is running its fn.
C13_Witness ==
    /\ cancelled
    /\ pollPc = "done"
    /\ ticks = 1
    /\ \E i \in InFn : seen[i] = snap

\* the relative keys a snapshot holds
FilesOf(s) == {s.files[i] : i \in DOMAIN s.files}

\* s.snap is what the bucket holds now: one file for each object under the
\* prefix that the index the bucket resolves to accepts, and no other
FreshSnap ==
    /\ IndexAt(BState) # NoIdx
    /\ FilesOf(snap) = {TrimPrefix(k, prefix) : k \in InScopeAt(BState, IndexAt(BState))}
    /\ Len(snap.files) = Cardinality(FilesOf(snap))

\* the last poll tick started when the backend had stopped failing, has
\* completed, and the bucket was not written since it started; ctx is live
QuietTickDone ==
    /\ ~cancelled
    /\ u["poll"].quiet
    /\ u["poll"].pc \in {"ret", "idle"}

\* C14 as stated: after a tick that started once the bucket is stable and
\* the backend succeeds, every View observes a snapshot built from the
\* bucket's final content.
C14_Original_FreshAfterQuietTick ==
    QuietTickDone =>
        /\ FreshSnap
        /\ snap.id = u["poll"].id
        /\ \A i \in InFn : seen[i] = snap

\* C14: after a tick that started once the bucket is stable and the backend
\* succeeds, either the tick published a snapshot of the bucket's final
\* content and every View observes it, or the final content does not build
\* (its index object does not parse, or the snapshot builder rejects the
\* files) and the tick left the published snapshot as it was.
C14_FreshAfterQuietTickThatBuilds ==
    QuietTickDone =>
        /\ u["poll"].err \in {"none", "ErrParse", "ErrSnapshot"}
        /\ u["poll"].err = "none" =>
              /\ FreshSnap
              /\ snap.id = u["poll"].id
              /\ \A i \in InFn : seen[i] = snap
        /\ u["poll"].err = "ErrParse" <=> IndexAt(BState) = NoIdx
        /\ u["poll"].err # "none" => snap = u["poll"].pre /\ ~u["poll"].changed

\* C14 witness: the bucket was written, the backend healed, and a tick that
\* started afterwards replaced the snapshot by one with other files, which
\* a running fn observes.
C14_Witness ==
    /\ QuietTickDone
    /\ writes = 1
    /\ u["poll"].err = "none"
    /\ FilesOf(snap) # FilesOf(u["poll"].pre)
    /\ \E i \in InFn : seen[i] = snap

\* C15: every build that gets past getIndex filters with the index the
\* bucket resolves to at the moment that build reads it (the parsed index
\* object, or the default index when the object is absent), whatever index
\* an earlier update used; the index a build failed on is the bucket's too.
C15_IndexResolvedAfresh ==
    /\ [][\A r \in Runners :
             (u[r].pc = "getIndex" /\ u'[r].pc = "next") =>
                 /\ u'[r].idx = IndexAt(BState)
                 /\ u'[r].idx # NoIdx]_vars
    /\ [][\A r \in Runners :
             (u[r].pc = "getIndex" /\ u'[r].pc = "ret" /\ u'[r].err = "ErrParse") =>
                 IndexAt(BState) = NoIdx]_vars
    /\ [][\A r \in Runners :
             (u[r].pc \in {"next", "open", "snapshot"} /\ u'[r].pc \in {"next", "open", "snapshot"})
                 => u'[r].idx = u[r].idx]_vars

\* C15 witness: the index object was deleted after an update that used it
\* published a file the default index rejects; the poll tick's build has
\* resolved the default index.
C15_Witness ==
    /\ u["poll"].pc = "next"
    /\ writes = 1
    /\ IndexKey \notin bucket
    /\ u["poll"].idx = DefaultFliptIndex
    /\ \E f \in FilesOf(snap) : ~Match(DefaultFliptIndex, f)

\* the steps of update that run inside build
Building(r) == u[r].pc \in {"getIndex", "next", "open", "snapshot"}

\* C16: the write lock is held exactly between Lock's return and Unlock, and
\* requested exactly while Lock waits; while build runs (index read,
\* listing, reader opens, snapshot construction) the mutex has no writer,
\* s.snap is still the snapshot published before, and every View call that
\* waits for the read lock can take it at once.
C16_NoLockDuringBuild ==
    /\ mu.writer = "held" <=> \E r \in Runners : u[r].pc \in {"assign", "unlock"}
    /\ mu.writer = "pending" <=> \E r \in Runners : u[r].pc = "lockwait"
    /\ \A r \in Runners :
          (Building(r) \/ u[r].pc = "lock") =>
              /\ mu.writer = "none"
              /\ snap = u[r].pre
              /\ \A i \in Readers : rpc[i] = "rlock" => ENABLED ViewRLock(i)
              /\ \A i \in InFn : seen[i] = u[r].pre

\* C16 witness: while the poll tick's build opens a reader, one View call
\* runs its fn on the snapshot published before and another is about to
\* take the read lock.
C16_Witness ==
    /\ u["poll"].pc = "open"
    /\ snap # Nil
    /\ rpc[1] = "fn" /\ seen[1] = u["poll"].pre
    /\ rpc[2] = "rlock"

\* C17: an update called from a fn never gets the write lock: when its
\* build succeeds it waits at s.mu.Lock() for ever, the View that runs the
\* fn keeps its read lock and never returns, and the snapshot it built is
\* never published; only an update whose build fails returns to the fn.
C17_ReentrantUpdateDeadlocks ==
    /\ [](u["fn"].pc \notin {"assign", "unlock"})
    /\ [](~u["fn"].changed /\ (u["fn"].pc = "ret" => u["fn"].err # "none"))
    /\ [](u["fn"].id # 0 => snap.id # u["fn"].id)
    /\ [](u["fn"].pc = "lockwait" =>
             /\ mu.readers >= 1
             /\ ~ENABLED UpdateLockAcquired("fn")
             /\ \A i \in Readers : rpc[i] = "fnUpdate" =>
                   ~ENABLED ViewReturn(i) /\ ~ENABLED FnUpdateReturned(i))
    /\ [][u["fn"].pc \in {"lock", "lockwait"} =>
             /\ u'["fn"].pc \in {"lock", "lockwait"}
             /\ mu'.readers >= 1
             /\ \E i \in Readers : rpc[i] = "fnUpdate" /\ rpc'[i] = "fnUpdate"]_vars

\* C17 witness: the update a fn called has built a snapshot and waits for
\* the write lock its own View keeps from it; the other View call and the
\* poll tick's update wait behind it.
C17_Witness ==
    /\ u["fn"].pc = "lockwait"
    /\ u["fn"].snap # Nil
    /\ rpc[1] = "fnUpdate"
    /\ rpc[2] = "rlock"
    /\ u["poll"].pc = "lock"

\* C18: when update returns, changed is true exactly when err is nil; with
\* changed true s.snap is the snapshot this call built, another reference
\* than the one published before even when the files are the same; with an
\* error s.snap is the one published before.
C18_ChangedIffPublished ==
    \A r \in Runners :
        /\ u[r].pc = "ret" =>
              /\ u[r].changed <=> u[r].err = "none"
              /\ u[r].changed =>
                    /\ snap = u[r].snap
                    /\ snap.id = u[r].id
                    /\ snap # u[r].pre
              /\ ~u[r].changed => snap = u[r].pre /\ u[r].snap = Nil
        /\ (u[r].pc = "idle" /\ u[r].id # 0) => (u[r].changed <=> u[r].err = "none")

\* C18 witness: a poll tick over an unchanged bucket returned true and
\* s.snap is a new snapshot with the files of the one it replaced.
C18_Witness ==
    /\ u["poll"].pc = "ret"
    /\ u["poll"].changed
    /\ writes = 0
    /\ u["poll"].pre # Nil
    /\ Len(snap.files) = 2
    /\ snap.files = u["poll"].pre.files
    /\ snap # u["poll"].pre

\* C19: s.snap is only ever replaced by the snapshot of a build that
\* started later, and every update under way started after the build of
\* the published snapshot; a View call that gets the read lock is given s.snap, which
\* is no older than any snapshot a fn is running on; so a later View call
\* never observes an earlier update's snapshot.
C19_PublishedNeverGoBackwards ==
    /\ [][snap' # snap => snap'.id > snap.id]_vars
    /\ [](\A j \in InFn : seen[j].id <= snap.id)
    /\ [](\A r \in Runners : (InUpdate(r) /\ u[r].pc # "unlock") => u[r].id > snap.id)
    /\ [][\A i \in Readers :
             (rpc[i] = "rlock" /\ rpc'[i] = "fn") =>
                 /\ seen'[i] = snap
                 /\ \A j \in InFn : seen'[i].id >= seen[j].id]_vars

\* C19 witness: three updates have published in turn and a View call that
\* started after the last one runs its fn on the third snapshot.
C19_Witness ==
    /\ snap.id = 3
    /\ ticks = 2
    /\ u["poll"].pre.id = 2
    /\ rpc[1] = "fn" /\ seen[1] = snap
    /\ rpc[2] = "rlock"

\* C20: with every fn returning and none calling back into the store, a
\* swap that waits for the write lock is performed although View calls keep
\* arriving, because no View call gets the read lock while a writer waits or
\* holds the lock; and every View call gets the read lock, runs fn and
\* returns.
C20_NoStarvation ==
    /\ \A r \in Runners :
          (u[r].pc \in {"lock", "lockwait"}) ~> (u[r].pc = "ret" /\ u[r].changed /\ snap = u[r].snap)
    /\ \A i \in Readers : (rpc[i] = "rlock") ~> (rpc[i] = "fn")
    /\ \A i \in Readers : (rpc[i] = "fn") ~> (rpc[i] = "idle")
    /\ [](mu.writer # "none" => \A i \in Readers : ~ENABLED ViewRLock(i))
    /\ [](mu.writer = "none" => \A i \in Readers : rpc[i] = "rlock" => ENABLED ViewRLock(i))

\* C20 witness: the poll tick's update waits for the write lock behind a
\* running fn, and a View call that arrived after it waits behind the
\* update.
C20_Witness ==
    /\ u["poll"].pc = "lockwait"
    /\ mu.writer = "pending"
    /\ rpc[1] = "fn"
    /\ rpc[2] = "rlock"

====
